---- MODULE Spec2Model ----
(***************************************************************************)
(* A model of pkg/s3select/jsonHelpers.go: the JSON WHERE-clause evaluator *)
(* (jsonWhereClause, jsonEvaluateBetween, jsonValue) and the record reader *)
(* (JSONInput.jsonRead).                                                   *)
(*                                                                         *)
(* Text (record values rendered by gjson, SQL literal tokens) is a         *)
(* sequence of one-character strings, so that rendering a number and       *)
(* parsing it back are computed, not assumed.                              *)
(***************************************************************************)
EXTENDS Integers, Sequences, FiniteSets, TLC

\* ------------------------------------------------------------------ bounds

\* Numbers in records and in integer literals range over 0..MaxNum.
MaxNum == 2
\* Nesting depth of AND/OR nodes handed to the evaluator.
MaxDepth == 2
\* Documents in one request's input stream.
MaxDocs == 2
\* Calls of jsonRead on one request's reader.
MaxCalls == 4

\* -------------------------------------------------------------------- text

Digits == <<"0", "1", "2", "3", "4", "5", "6", "7", "8", "9">>

\* Byte order of the characters the model uses (ASCII: digits before letters).
Alphabet == Digits \o <<"a", "b", "x">>

Ord(c) == CHOOSE i \in 1..Len(Alphabet) : Alphabet[i] = c

IsDigit(c) == \E i \in 1..Len(Digits) : Digits[i] = c

DigitVal(c) == (CHOOSE i \in 1..Len(Digits) : Digits[i] = c) - 1

\* Decimal rendering of a non-negative integer (gjson's Result.String() of a
\* JSON number that is a non-negative integer).
RECURSIVE Itoa(_)
Itoa(n) ==
    IF n < 10 THEN <<Digits[n + 1]>>
    ELSE Itoa(n \div 10) \o <<Digits[(n % 10) + 1]>>

RECURSIVE AtoiDigits(_)
AtoiDigits(s) ==
    IF Len(s) = 0 THEN 0
    ELSE 10 * AtoiDigits(SubSeq(s, 1, Len(s) - 1)) + DigitVal(s[Len(s)])

\* Parse of a decimal text: ok is FALSE for the empty text and for a text
\* holding a non-digit.
Atoi(s) ==
    IF Len(s) > 0 /\ \A i \in 1..Len(s) : IsDigit(s[i])
    THEN [ok |-> TRUE, n |-> AtoiDigits(s)]
    ELSE [ok |-> FALSE, n |-> 0]

\* Byte-wise lexical order of two texts.
RECURSIVE LexLess(_, _)
LexLess(a, b) ==
    IF Len(b) = 0 THEN FALSE
    ELSE IF Len(a) = 0 THEN TRUE
    ELSE IF Ord(a[1]) < Ord(b[1]) THEN TRUE
    ELSE IF Ord(a[1]) > Ord(b[1]) THEN FALSE
    ELSE LexLess(Tail(a), Tail(b))

\* ----------------------------------------------------------------- records

\* The fields a record may hold.
Fields == {"age", "name"}

Absent == [t |-> "absent", n |-> 0, s |-> <<>>]
JNum(n) == [t |-> "num", n |-> n, s |-> <<>>]
JStr(s) == [t |-> "str", n |-> 0, s |-> s]

\* The decoded JSON documents the model evaluates: age is absent or a number,
\* name is absent or a string.
Records ==
    { [f \in Fields |-> IF f = "age" THEN a ELSE nm] :
        a \in {Absent} \cup {JNum(n) : n \in 0..MaxNum},
        nm \in {Absent, JStr(<<"a">>)} }

\* jsonValue with a path that resolves to nothing rendered as a zero.
jsonValueAbsentAsZero(input, row) ==
    IF input \notin DOMAIN row THEN <<"0">>
    ELSE LET v == row[input] IN
         CASE v.t = "num" -> Itoa(v.n)
           [] v.t = "str" -> v.s
           [] OTHER -> <<"0">>

\* gjson.Get(row, input).String(): the text of the value at the path, the
\* empty text when the path resolves to nothing.
jsonValue(input, row) ==
    IF input \notin DOMAIN row THEN <<>>
    ELSE LET v == row[input] IN
         CASE v.t = "num" -> Itoa(v.n)
           [] v.t = "str" -> v.s
           [] OTHER -> <<>>

\* ------------------------------------------------------------------ errors

NoErr == "nil"
ErrUnsupportedSQLOperation == "ErrUnsupportedSQLOperation"
ErrTypeMismatch == "ErrTypeMismatch"

\* An evaluation outcome: the boolean, the error, and the number of lines the
\* call wrote to the standard output stream.
Outcome(v, e, o) == [val |-> v, err |-> e, out |-> o]

\* --------------------------------------------------------------------- AST

\* The node kinds of sqlparser the evaluator meets. Every node is a record
\* with a kind; the fields keep sqlparser's names.
Col(c) == [kind |-> "ColName", Name |-> c]
FuncExpr(f) == [kind |-> "FuncExpr", Name |-> f]
SQLVal(t, v) == [kind |-> "SQLVal", Type |-> t, Val |-> v]
IntLit(n) == SQLVal("IntVal", Itoa(n))
StrLit(s) == SQLVal("StrVal", s)
BoolVal(b) == [kind |-> "BoolVal", b |-> b]
IsExpr(op, e) == [kind |-> "IsExpr", Operator |-> op, Expr |-> e]
ParenExpr(e) == [kind |-> "ParenExpr", Expr |-> e]
RangeCond(op, l, from, to) ==
    [kind |-> "RangeCond", Operator |-> op, Left |-> l, From |-> from, To |-> to]
ComparisonExpr(op, l, r) ==
    [kind |-> "ComparisonExpr", Operator |-> op, Left |-> l, Right |-> r]
AndExpr(l, r) == [kind |-> "AndExpr", Left |-> l, Right |-> r]
OrExpr(l, r) == [kind |-> "OrExpr", Left |-> l, Right |-> r]

\* No node: the value of whereClause before the first call.
NoNode == [kind |-> "none"]

\* ---------------------------------------------------------------- operands

NilOperand == [t |-> "nil", n |-> 0, s |-> <<>>]
IntOperand(n) == [t |-> "int", n |-> n, s |-> <<>>]
StrOperand(s) == [t |-> "string", n |-> 0, s |-> s]

\* Operand Coercion: a string literal to a string, an integer literal to an
\* integer, an error for a literal kind it does not recognise.
evaluateParserType(col) ==
    CASE col.Type = "StrVal" -> [val |-> StrOperand(col.Val), err |-> NoErr]
      [] col.Type = "IntVal" ->
            LET p == Atoi(col.Val) IN
            IF p.ok THEN [val |-> IntOperand(p.n), err |-> NoErr]
            ELSE [val |-> NilOperand, err |-> ErrUnsupportedSQLOperation]
      [] OTHER -> [val |-> NilOperand, err |-> ErrUnsupportedSQLOperation]

ValidOperators == {"=", "!=", "<", "<=", ">", ">="}

CmpInt(a, op, b) ==
    CASE op = "=" -> a = b
      [] op = "!=" -> a # b
      [] op = "<" -> a < b
      [] op = "<=" -> a <= b
      [] op = ">" -> a > b
      [] op = ">=" -> a >= b

CmpStr(a, op, b) ==
    CASE op = "=" -> a = b
      [] op = "!=" -> a # b
      [] op = "<" -> LexLess(a, b)
      [] op = "<=" -> LexLess(a, b) \/ a = b
      [] op = ">" -> LexLess(b, a)
      [] op = ">=" -> LexLess(b, a) \/ a = b

\* Comparison Operator Evaluator: one binary operator applied to the
\* extracted text and the coerced operand.
evaluateOperator(myTblVal, operator, operand) ==
    IF operator \notin ValidOperators
    THEN Outcome(FALSE, ErrUnsupportedSQLOperation, 0)
    ELSE CASE operand.t = "int" ->
                LET p == Atoi(myTblVal) IN
                IF p.ok THEN Outcome(CmpInt(p.n, operator, operand.n), NoErr, 0)
                ELSE IF operator \in {"=", "!="}
                THEN Outcome(CmpStr(myTblVal, operator, Itoa(operand.n)), NoErr, 0)
                ELSE Outcome(FALSE, ErrTypeMismatch, 0)
           [] operand.t = "string" ->
                Outcome(CmpStr(myTblVal, operator, operand.s), NoErr, 0)
           [] OTHER -> Outcome(FALSE, ErrUnsupportedSQLOperation, 0)

\* --------------------------------------------------------------- evaluator

\* fmt.Sprintf("%v", whereClause): a sqlparser.BoolVal prints as the boolean,
\* a pointer to a node struct prints as "&{...}".
Sprintf(whereClause) ==
    IF whereClause.kind = "BoolVal"
    THEN (IF whereClause.b THEN "true" ELSE "false")
    ELSE "&{...}"

\* jsonEvaluateBetween: one line printed to the standard output stream, then
\* (false, nil); the bounds and the column are not consulted.
jsonEvaluateBetween(betweenExpr, alias, record, columnNames) ==
    Outcome(FALSE, NoErr, 1)

\* The RangeCond case of jsonWhereClause with the result of "not between"
\* returned as the delegate gave it.
rangeCondNotNegated(expr, alias, row, columnNames) ==
    IF expr.Operator # "between" /\ expr.Operator # "not between"
    THEN Outcome(FALSE, ErrUnsupportedSQLOperation, 0)
    ELSE LET r == jsonEvaluateBetween(expr, alias, row, columnNames) IN
         IF r.err # NoErr THEN Outcome(FALSE, r.err, r.out)
         ELSE Outcome(r.val, NoErr, r.out)

\* The RangeCond case of jsonWhereClause.
rangeCond(expr, alias, row, columnNames) ==
    IF expr.Operator # "between" /\ expr.Operator # "not between"
    THEN Outcome(FALSE, ErrUnsupportedSQLOperation, 0)
    ELSE IF expr.Operator = "not between"
    THEN LET myResult == jsonEvaluateBetween(expr, alias, row, columnNames) IN
         IF myResult.err # NoErr THEN Outcome(FALSE, myResult.err, myResult.out)
         ELSE Outcome(~myResult.val, NoErr, myResult.out)
    ELSE LET myResult == jsonEvaluateBetween(expr, alias, row, columnNames) IN
         IF myResult.err # NoErr THEN Outcome(FALSE, myResult.err, myResult.out)
         ELSE Outcome(myResult.val, NoErr, myResult.out)

\* The ComparisonExpr case of jsonWhereClause. The operand stays nil when the
\* right side is no SQLVal; a left side that is no ColName leaves the switch,
\* and the function ends in its final "return true, nil".
comparisonExpr(expr, row) ==
    LET coerced == IF expr.Right.kind = "SQLVal"
                   THEN evaluateParserType(expr.Right)
                   ELSE [val |-> NilOperand, err |-> NoErr]
    IN  IF coerced.err # NoErr THEN Outcome(FALSE, coerced.err, 0)
        ELSE IF expr.Left.kind = "ColName"
        THEN evaluateOperator(jsonValue(expr.Left.Name, row), expr.Operator, coerced.val)
        ELSE Outcome(TRUE, NoErr, 0)

\* jsonWhereClause: the WHERE clause evaluated against one record.
RECURSIVE jsonWhereClause(_, _, _, _)
jsonWhereClause(row, columnNames, alias, whereClause) ==
    IF Sprintf(whereClause) = "false" THEN Outcome(FALSE, NoErr, 0)
    ELSE CASE whereClause.kind = "IsExpr" -> Outcome(TRUE, NoErr, 0)
           [] whereClause.kind = "RangeCond" ->
                rangeCond(whereClause, alias, row, columnNames)
           [] whereClause.kind = "ComparisonExpr" ->
                comparisonExpr(whereClause, row)
           [] whereClause.kind = "AndExpr" ->
                LET left == IF whereClause.Left.kind = "ComparisonExpr"
                            THEN jsonWhereClause(row, columnNames, alias, whereClause.Left)
                            ELSE Outcome(FALSE, NoErr, 0)
                IN  IF left.err # NoErr THEN Outcome(FALSE, left.err, left.out)
                    ELSE
                    LET right == IF whereClause.Right.kind = "ComparisonExpr"
                                 THEN jsonWhereClause(row, columnNames, alias, whereClause.Right)
                                 ELSE Outcome(FALSE, NoErr, 0)
                    IN  IF right.err # NoErr
                        THEN Outcome(FALSE, right.err, left.out + right.out)
                        ELSE Outcome(right.val /\ left.val, NoErr, left.out + right.out)
           [] whereClause.kind = "OrExpr" ->
                LET left == IF whereClause.Left.kind = "ComparisonExpr"
                            THEN jsonWhereClause(row, columnNames, alias, whereClause.Left)
                            ELSE Outcome(FALSE, NoErr, 0)
                    right == IF whereClause.Right.kind = "ComparisonExpr"
                             THEN jsonWhereClause(row, columnNames, alias, whereClause.Right)
                             ELSE Outcome(FALSE, NoErr, 0)
                IN  Outcome(right.val \/ left.val, NoErr, left.out + right.out)
           [] OTHER -> Outcome(TRUE, NoErr, 0)

\* ------------------------------------------------------------------ inputs

IntLits == {IntLit(n) : n \in 0..MaxNum}

\* Comparisons: a column or a function call on the left; an integer literal,
\* a string literal, a literal of another kind or a column on the right;
\* the six comparison operators and one the evaluator does not implement.
Comparisons ==
    { ComparisonExpr(op, l, r) :
        op \in ValidOperators \cup {"like"},
        l \in {Col("age"), Col("name"), FuncExpr("lower")},
        r \in IntLits \cup {StrLit(<<"a">>), StrLit(<<>>),
                            SQLVal("HexVal", <<"a">>), Col("name")} }

\* Range conditions: the two operators of the grammar and one other.
RangeConds ==
    { RangeCond(op, Col(c), from, to) :
        op \in {"between", "not between", "in"},
        c \in Fields, from \in IntLits, to \in IntLits }

\* The operands of the AND/OR nodes of the model: a comparison that is true
\* or false by the record, one that fails for its operator, one that fails
\* for the type of its operand, a range condition, and one with an unknown
\* operator.
SubLeaves ==
    { ComparisonExpr("=", Col("name"), StrLit(<<"a">>)),
      ComparisonExpr("like", Col("name"), StrLit(<<"a">>)),
      ComparisonExpr(">", Col("name"), IntLit(1)),
      RangeCond("not between", Col("age"), IntLit(0), IntLit(1)),
      RangeCond("in", Col("age"), IntLit(0), IntLit(1)) }

\* Nodes of every other kind: null tests, boolean literals, parentheses.
OtherNodes ==
    { IsExpr(op, Col(c)) : op \in {"is null", "is not null"}, c \in Fields }
    \cup {BoolVal(TRUE), BoolVal(FALSE)}
    \cup {ParenExpr(e) : e \in SubLeaves}

\* AND and OR nodes with one operand in S and the other in SubLeaves.
Nest(S) ==
    { AndExpr(l, r) : l \in S, r \in SubLeaves }
    \cup { AndExpr(l, r) : l \in SubLeaves, r \in S }
    \cup { OrExpr(l, r) : l \in S, r \in SubLeaves }
    \cup { OrExpr(l, r) : l \in SubLeaves, r \in S }

RECURSIVE NodesAt(_)
NodesAt(d) == IF d = 0 THEN SubLeaves ELSE NodesAt(d - 1) \cup Nest(NodesAt(d - 1))

\* The WHERE clauses handed to the evaluator.
Nodes == Comparisons \cup RangeConds \cup OtherNodes \cup NodesAt(MaxDepth)

\* The requests the process serves.
Req == {"r1", "r2"}

\* One document of an input stream: a well-formed JSON object, or bytes the
\* decoder cannot decode.
Malformed == [t |-> "malformed", n |-> 0, s |-> <<>>]
Docs ==
    { [f \in Fields |-> IF f = "age" THEN JNum(1) ELSE Absent],
      [f \in Fields |-> IF f = "age" THEN Absent ELSE JStr(<<"a">>)],
      [f \in Fields |-> Malformed] }

IsMalformed(doc) == doc["age"].t = "malformed"

RECURSIVE SeqsUpTo(_, _)
SeqsUpTo(S, n) ==
    IF n = 0 THEN {<<>>}
    ELSE SeqsUpTo(S, n - 1)
         \cup {Append(q, x) : q \in {p \in SeqsUpTo(S, n - 1) : Len(p) = n - 1}, x \in S}

Streams == SeqsUpTo(Docs, MaxDocs)

\* The value jsonRead returns when the stream holds no further document.
Nil == [f \in Fields |-> [t |-> "nil", n |-> 0, s |-> <<>>]]

\* ------------------------------------------------------------------- state

VARIABLES
    row,          \* the record of the current evaluator call
    columnNames,  \* the column-name mapping of the call
    alias,        \* the table alias of the call
    whereClause,  \* the node of the call
    result,       \* what the call returned: [val, err]
    stdout,       \* lines written to the process's standard output stream
    pc,           \* "idle", "called" (jsonWhereClause is entered), "returned"
    stream,       \* per request: the documents of its input
    pos,          \* per request: the documents its decoder has consumed
    ret,          \* per request: what its last jsonRead returned
    reads,        \* per request: "none", "record", "nil" or "fatal"
    calls,        \* per request: the calls of jsonRead made so far
    alive         \* the process is running

evalVars == <<row, columnNames, alias, whereClause, result, stdout, pc>>
readVars == <<stream, pos, ret, reads, calls, alive>>
vars == <<row, columnNames, alias, whereClause, result, stdout, pc,
          stream, pos, ret, reads, calls, alive>>

EmptyRecord == [f \in Fields |-> Absent]

\* Before the evaluator is called; the reader's part of the state is at rest.
Init ==
    /\ row = EmptyRecord
    /\ columnNames = [f \in Fields |-> IF f = "age" THEN 0 ELSE 1]
    /\ alias = "s3object"
    /\ whereClause = NoNode
    /\ result = [val |-> FALSE, err |-> NoErr]
    /\ stdout = 0
    /\ pc = "idle"
    /\ stream = [r \in Req |-> <<>>]
    /\ pos = [r \in Req |-> 0]
    /\ ret = [r \in Req |-> Nil]
    /\ reads = [r \in Req |-> "none"]
    /\ calls = [r \in Req |-> 0]
    /\ alive = TRUE

\* The process with each request's decoder at the start of its stream; the
\* evaluator's part of the state is at rest.
InitRead ==
    /\ row = EmptyRecord
    /\ columnNames = [f \in Fields |-> IF f = "age" THEN 0 ELSE 1]
    /\ alias = "s3object"
    /\ whereClause = NoNode
    /\ result = [val |-> FALSE, err |-> NoErr]
    /\ stdout = 0
    /\ pc = "idle"
    /\ stream \in [Req -> Streams]
    /\ pos = [r \in Req |-> 0]
    /\ ret = [r \in Req |-> Nil]
    /\ reads = [r \in Req |-> "none"]
    /\ calls = [r \in Req |-> 0]
    /\ alive = TRUE

\* ----------------------------------------------------------------- actions

\* The caller enters jsonWhereClause with a record and a node.
Call(r, n) ==
    /\ pc = "idle"
    /\ row' = r
    /\ whereClause' = n
    /\ pc' = "called"
    /\ UNCHANGED <<columnNames, alias, result, stdout>>
    /\ UNCHANGED readVars

\* jsonWhereClause runs to its return.
Evaluate ==
    /\ pc = "called"
    /\ LET o == jsonWhereClause(row, columnNames, alias, whereClause) IN
        /\ result' = [val |-> o.val, err |-> o.err]
        /\ stdout' = stdout + o.out
    /\ pc' = "returned"
    /\ UNCHANGED <<row, columnNames, alias, whereClause>>
    /\ UNCHANGED readVars

\* The decoder's position after dec.Decode with the document left unconsumed.
consumedNone(p) == p

\* The decoder's position after dec.Decode has decoded one document.
consumed(p) == p + 1

\* JSONInput.jsonRead on request r's decoder: nil when the decoder has no
\* more data; log.Fatal, which exits the process, when the next document
\* does not decode; the decoded document otherwise.
jsonRead(r) ==
    /\ alive
    /\ calls[r] < MaxCalls
    /\ calls' = [calls EXCEPT ![r] = calls[r] + 1]
    /\ IF pos[r] >= Len(stream[r])
       THEN /\ ret' = [ret EXCEPT ![r] = Nil]
            /\ reads' = [reads EXCEPT ![r] = "nil"]
            /\ UNCHANGED <<pos, alive>>
       ELSE LET doc == stream[r][pos[r] + 1] IN
            IF IsMalformed(doc)
            THEN /\ alive' = FALSE
                 /\ reads' = [reads EXCEPT ![r] = "fatal"]
                 /\ UNCHANGED <<pos, ret>>
            ELSE /\ ret' = [ret EXCEPT ![r] = doc]
                 /\ reads' = [reads EXCEPT ![r] = "record"]
                 /\ pos' = [pos EXCEPT ![r] = consumed(pos[r])]
                 /\ UNCHANGED alive
    /\ UNCHANGED stream
    /\ UNCHANGED evalVars

Next ==
    \/ (pc = "idle" /\ \E r \in Records, n \in Nodes : Call(r, n))
    \/ Evaluate

\* The evaluator, called on every record and node of the model.
Spec == Init /\ [][Next]_vars

NextRead == \E r \in Req : jsonRead(r)

\* The reader, on every stream of the model, for the requests of one process.
SpecRead == InitRead /\ [][NextRead]_vars

\* ------------------------------------------------------------------ claims

\* What the top-level evaluator gives for node n against the current record.
TopLevel(n) == jsonWhereClause(row, columnNames, alias, n)

Returned == pc = "returned"

\* C1: a node whose kind is none of comparison, AND, OR, BETWEEN/NOT BETWEEN
\* evaluates to the error ErrUnsupportedSQLOperation, never to a boolean with
\* a nil error. (Boolean literals, among them the literal false marker the
\* evaluator answers before it looks at the node's kind, are left out of the
\* statement: it is about the null tests and the other constructs.)
C1_UnsupportedNodeRejected ==
    (/\ Returned
     /\ whereClause.kind # "BoolVal"
     /\ whereClause.kind \notin {"ComparisonExpr", "AndExpr", "OrExpr", "RangeCond"})
        => result.err = ErrUnsupportedSQLOperation

\* C2: for a record whose column holds the number v and integer literal bounds
\* lo <= hi, `col BETWEEN lo AND hi` returns (true, nil) exactly when
\* lo <= v <= hi, and (false, nil) otherwise.
C2_BetweenIsInclusiveRange ==
    (/\ Returned
     /\ whereClause.kind = "RangeCond"
     /\ whereClause.Operator = "between"
     /\ row[whereClause.Left.Name].t = "num"
     /\ Atoi(whereClause.From.Val).n <= Atoi(whereClause.To.Val).n)
        => LET v == row[whereClause.Left.Name].n
               lo == Atoi(whereClause.From.Val).n
               hi == Atoi(whereClause.To.Val).n
           IN  result = [val |-> (lo <= v /\ v <= hi), err |-> NoErr]

\* C3: an AND (OR) node whose two sub-expressions each evaluate without error
\* returns the logical AND (OR) of what the top-level evaluator gives for each
\* sub-expression, whatever the kinds of the sub-expressions.
C3_CombinatorsRecurseIntoAnyKind ==
    (Returned /\ whereClause.kind \in {"AndExpr", "OrExpr"})
        => LET l == TopLevel(whereClause.Left)
               r == TopLevel(whereClause.Right)
           IN  (l.err = NoErr /\ r.err = NoErr)
                   => /\ result.err = NoErr
                      /\ result.val = IF whereClause.kind = "AndExpr"
                                      THEN (l.val /\ r.val)
                                      ELSE (l.val \/ r.val)

\* C4: an OR node of which one sub-expression returns an error and the other
\* evaluates to false returns that error, not (false, nil).
C4_OrSurfacesUndeterminedError ==
    (Returned /\ whereClause.kind = "OrExpr")
        => LET l == TopLevel(whereClause.Left)
               r == TopLevel(whereClause.Right)
           IN  /\ (l.err # NoErr /\ r.err = NoErr /\ ~r.val) => result.err = l.err
               /\ (r.err # NoErr /\ l.err = NoErr /\ ~l.val) => result.err = r.err

\* C5: an AND node of which a sub-expression of any kind returns an error
\* returns an error; when both sides return an error, it is the left one's.
C5_AndPropagatesError ==
    (Returned /\ whereClause.kind = "AndExpr")
        => LET l == TopLevel(whereClause.Left)
               r == TopLevel(whereClause.Right)
           IN  /\ (l.err # NoErr \/ r.err # NoErr) => result.err # NoErr
               /\ (l.err # NoErr /\ r.err # NoErr) => result.err = l.err

\* C6: an OR node whose left sub-expression, of whatever kind, evaluates to
\* true returns (true, nil), also when the right sub-expression returns an
\* error.
C6_OrTrueLeftDecides ==
    (Returned /\ whereClause.kind = "OrExpr")
        => LET l == TopLevel(whereClause.Left)
           IN  (l.err = NoErr /\ l.val) => result = [val |-> TRUE, err |-> NoErr]

\* C7: a comparison whose left-hand side is no simple column reference returns
\* ErrUnsupportedSQLOperation for every record, operator and right operand.
C7_NonColumnLeftRejected ==
    (Returned /\ whereClause.kind = "ComparisonExpr" /\ whereClause.Left.kind # "ColName")
        => result.err = ErrUnsupportedSQLOperation

\* C8: a failure to decode the next document of a request's stream never
\* terminates the process: after it the process is still running, so the
\* other requests' reads can proceed.
C8_DecodeFailureStaysInRequest ==
    \A r \in Req : reads[r] = "fatal" => alive

\* C9: for every record and every range condition, when the Range Evaluator
\* returns without error NOT BETWEEN returns the negation of what BETWEEN
\* returns on the same column and bounds, both with a nil error; when it
\* returns an error, both forms return (false, that error).
C9_NotBetweenNegatesBetween ==
    (Returned /\ whereClause.kind = "RangeCond"
              /\ whereClause.Operator \in {"between", "not between"})
        => LET other == [whereClause EXCEPT
                            !.Operator = IF @ = "between" THEN "not between" ELSE "between"]
               o == TopLevel(other)
               d == jsonEvaluateBetween(whereClause, alias, row, columnNames)
           IN  IF d.err = NoErr
               THEN /\ result.err = NoErr
                    /\ o.err = NoErr
                    /\ result.val = ~o.val
               ELSE /\ result = [val |-> FALSE, err |-> d.err]
                    /\ [val |-> o.val, err |-> o.err] = result

\* C9's case: a NOT BETWEEN condition has been evaluated, and returned true.
C9_Witness ==
    /\ Returned
    /\ whereClause.kind = "RangeCond"
    /\ whereClause.Operator = "not between"
    /\ result = [val |-> TRUE, err |-> NoErr]

\* C10: a call of the evaluator changes nothing outside it: the record, the
\* node, the column-name mapping, the alias and the standard output stream
\* are after the call what they were before it, for every node kind.
C10_EvaluationHasNoSideEffects ==
    [][pc = "called" =>
          /\ row' = row
          /\ whereClause' = whereClause
          /\ columnNames' = columnNames
          /\ alias' = alias
          /\ stdout' = stdout]_vars

\* The call was a comparison of a column the record does not hold with a
\* string or integer literal, under one of the six comparison operators.
AbsentColumnCompared ==
    /\ Returned
    /\ whereClause.kind = "ComparisonExpr"
    /\ whereClause.Operator \in ValidOperators
    /\ whereClause.Left.kind = "ColName"
    /\ row[whereClause.Left.Name].t = "absent"
    /\ whereClause.Right.kind = "SQLVal"
    /\ whereClause.Right.Type \in {"StrVal", "IntVal"}

\* What C11 says of the three comparisons it names: equality with a non-empty
\* string literal is false, equality with the empty string literal is true.
AbsentEqualsString ==
    (whereClause.Operator = "=" /\ whereClause.Right.Type = "StrVal")
        => result.val = (whereClause.Right.Val = <<>>)

OrderedAgainstNumber ==
    /\ whereClause.Operator \in {"<", "<=", ">", ">="}
    /\ whereClause.Right.Type = "IntVal"

WellFormed(r) == \A i \in 1..Len(stream[r]) : ~IsMalformed(stream[r][i])

\* C13: on a stream of n well-formed JSON object documents the k-th call of
\* jsonRead returns the k-th document for k <= n, and every later call returns
\* nil: no document is skipped or returned twice.
C13_ReadsInStreamOrder ==
    \A r \in Req :
        (WellFormed(r) /\ calls[r] >= 1)
            => IF calls[r] <= Len(stream[r])
               THEN reads[r] = "record" /\ ret[r] = stream[r][calls[r]]
               ELSE reads[r] = "nil" /\ ret[r] = Nil

\* C13's case: a request has read its two different documents and then called
\* jsonRead twice more, the last call returning nil.
C13_Witness ==
    \E r \in Req :
        /\ WellFormed(r)
        /\ Len(stream[r]) = 2
        /\ stream[r][1] # stream[r][2]
        /\ calls[r] = Len(stream[r]) + 2
        /\ reads[r] = "nil"

====
